---- MODULE Spec2Model ----
(***************************************************************************)
(* LeetCode rank tracker (backend/app.py): a 6-hourly background job and a *)
(* manual route fetch one user's ranking from a GraphQL endpoint and add   *)
(* one document per fetch to the Firestore collection "leetcode_rank";     *)
(* two read routes return the latest 10 documents and the full history     *)
(* with analytics.                                                         *)
(*                                                                         *)
(* An optional value (Python None / JSON null) is a sequence of length 0,  *)
(* a present value x is <<x>>.                                             *)
(***************************************************************************)
EXTENDS Integers, Sequences, FiniteSets, TLC

\* Bounds of the model.
MaxFetched == 2        \* fetches that extract a rank, per run of the process
Persisted == 9         \* documents already in the collection at process start

\* .limit(10) of get_rank.
RecentLimit == 10

\* Rankings the upstream may serve.
Ranks == {1600, 1700}

None == << >>
Some(x) == << x >>

(***************************************************************************)
(* JSON values, as response.json() returns them.                           *)
(***************************************************************************)
JNull == [kind |-> "null"]
JInt(n) == [kind |-> "int", val |-> n]
JStr(s) == [kind |-> "str", val |-> s]
JObj(keys, f) == [kind |-> "obj", keys |-> keys, fields |-> f]

\* Python truthiness of a JSON value.
Truthy(v) ==
    CASE v.kind = "null" -> FALSE
      [] v.kind = "int" -> v.val # 0
      [] v.kind = "str" -> v.val # ""
      [] v.kind = "obj" -> v.keys # {}

\* dict.get(k): None when the key is absent.
Get(v, k) == IF k \in v.keys THEN v.fields[k] ELSE JNull

\* v[k] succeeds: v is a dict holding k (KeyError / TypeError otherwise).
HasItem(v, k) == v.kind = "obj" /\ k \in v.keys

Profile(r) == JObj({"ranking"}, [ranking |-> JInt(r)])
User(r) == JObj({"username", "profile"},
                [username |-> JStr("Rawan-Khalifa"), profile |-> Profile(r)])
BodyOk(r) == JObj({"data"}, [data |-> JObj({"matchedUser"}, [matchedUser |-> User(r)])])
BodyNullUser == JObj({"data"}, [data |-> JObj({"matchedUser"}, [matchedUser |-> JNull])])
BodyEmptyData == JObj({"data"}, [data |-> JObj({}, [x \in {} |-> JNull])])
BodyOtherKey == JObj({"data"}, [data |-> JObj({"userStatus"}, [userStatus |-> JStr("x")])])
BodyNoProfile ==
    JObj({"data"},
         [data |-> JObj({"matchedUser"},
                        [matchedUser |-> JObj({"username"},
                                              [username |-> JStr("Rawan-Khalifa")])])])

\* What requests.post can come back with: no response at all, or a status and a
\* text that is JSON or not.  A ranking may arrive under a status that is not 2xx.
Replies ==
    {[kind |-> "transport_error"]}
      \cup {[kind |-> "http", status |-> 502, text |-> "garbage"]}
      \cup {[kind |-> "http", status |-> 200, text |-> "json", json |-> b] :
              b \in {BodyNullUser, BodyEmptyData, BodyOtherKey, BodyNoProfile}}
      \cup {[kind |-> "http", status |-> s, text |-> "json", json |-> BodyOk(r)] :
              s \in {200, 500}, r \in Ranks}

(***************************************************************************)
(* Lines 62-66 / 155-159: post, json(), the test of data and matchedUser,  *)
(* the subscripts to ranking.  The status code is never read.              *)
(***************************************************************************)
ExtractRank(data) ==
    LET d == Get(data, "data") IN
    IF ~Truthy(d) THEN [kind |-> "nomatch"]
    ELSE IF ~HasItem(d, "matchedUser") THEN [kind |-> "raised", exc |-> "KeyError"]
    ELSE LET u == d.fields["matchedUser"] IN
         IF ~Truthy(u) THEN [kind |-> "nomatch"]
         ELSE IF ~HasItem(u, "profile") THEN [kind |-> "raised", exc |-> "KeyError"]
         ELSE LET p == u.fields["profile"] IN
              IF ~HasItem(p, "ranking") THEN [kind |-> "raised", exc |-> "KeyError"]
              ELSE [kind |-> "rank", rank |-> p.fields["ranking"].val]

Fetch(reply) ==
    IF reply.kind = "transport_error" THEN [kind |-> "raised", exc |-> "ConnectionError"]
    ELSE IF reply.text # "json" THEN [kind |-> "raised", exc |-> "JSONDecodeError"]
    ELSE ExtractRank(reply.json)

(***************************************************************************)
(* The Firestore collection "leetcode_rank": a set of documents keyed by   *)
(* id, each with rank, the server's timestamp and an optional fetch_time.  *)
(***************************************************************************)
Ids(docs) == {d.id : d \in docs}

\* document() / add(): a random id, new to the collection.  Ids are only compared
\* to order documents of equal timestamp, so an id is drawn as a place in that
\* order: below or above the ids in use when the new timestamp is shared, above
\* them otherwise.
AutoIdFixed(docs, ts) == {1}
AutoId(docs, ts) ==
    IF docs = {} THEN {1}
    ELSE LET lo == CHOOSE i \in Ids(docs) : \A j \in Ids(docs) : i <= j
             hi == CHOOSE i \in Ids(docs) : \A j \in Ids(docs) : i >= j
         IN  IF \E d \in docs : d.timestamp = ts THEN {lo - 1, hi + 1} ELSE {hi + 1}

\* firestore.SERVER_TIMESTAMP: the commit time, never before an earlier commit's
\* and not necessarily after it.
ServerTimestamp(clock) == {clock, clock + 1}

\* datetime.now().isoformat()
IsoFormat(t) == [iso |-> t]

\* The fields the scheduled job writes (lines 70-73): rank, and no fetch_time
\* (now goes unused).
JobFieldsWithFetchTime(rank, now) == [rank |-> rank, fetch_time |-> Some(IsoFormat(now))]
JobFields(rank, now) == [rank |-> rank, fetch_time |-> None]

\* The fields the manual trigger writes (lines 163-167).
ManualFieldsMixedUp(rank, now) == [rank |-> now, fetch_time |-> Some(IsoFormat(now))]
ManualFields(rank, now) == [rank |-> rank, fetch_time |-> Some(IsoFormat(now))]

\* DocumentReference.set(): the document with this id is created or replaced.
SetDoc(docs, id, fields, ts) ==
    {d \in docs : d.id # id}
      \cup {[id |-> id, rank |-> fields.rank, timestamp |-> ts,
             fetch_time |-> fields.fetch_time]}

\* order_by("timestamp", direction): equal timestamps are ordered by document id,
\* in the direction tie.
Before(a, b, dir, tie) ==
    \/ IF dir = "ASCENDING" THEN a.timestamp < b.timestamp ELSE a.timestamp > b.timestamp
    \/ /\ a.timestamp = b.timestamp
       /\ IF tie = "ASCENDING" THEN a.id < b.id ELSE a.id > b.id

RECURSIVE Sorted(_, _, _)
Sorted(docs, dir, tie) ==
    IF docs = {} THEN << >>
    ELSE LET first == CHOOSE d \in docs : \A e \in docs \ {d} : Before(d, e, dir, tie)
         IN  << first >> \o Sorted(docs \ {first}, dir, tie)

\* The sequences stream() may yield for a query ordered by timestamp: Firestore
\* orders equal timestamps by id in the direction of the query, so there is one.
OrderByAnyTie(docs, dir) == {Sorted(docs, dir, "ASCENDING"), Sorted(docs, dir, "DESCENDING")}
OrderBy(docs, dir) == {Sorted(docs, dir, dir)}

\* .limit(n)
Unlimited(seq, n) == seq
Limit(seq, n) == SubSeq(seq, 1, IF Len(seq) < n THEN Len(seq) ELSE n)

(***************************************************************************)
(* Analytics of get_rank_history (lines 212-219).                          *)
(***************************************************************************)
RECURSIVE PyMin(_)
PyMin(seq) ==
    IF Len(seq) = 1 THEN seq[1]
    ELSE LET m == PyMin(Tail(seq)) IN IF m < seq[1] THEN m ELSE seq[1]

BestRankFirst(rank_values) == IF Len(rank_values) > 0 THEN Some(rank_values[1]) ELSE None
BestRank(rank_values) == IF Len(rank_values) > 0 THEN Some(PyMin(rank_values)) ELSE None

RankChangeReversed(rank_values) ==
    IF Len(rank_values) > 1 THEN rank_values[1] - rank_values[Len(rank_values)] ELSE 0
RankChange(rank_values) ==
    IF Len(rank_values) > 1 THEN rank_values[Len(rank_values)] - rank_values[1] ELSE 0

Analytics(data, rank_values) ==
    [total_records |-> Len(data),
     best_rank |-> BestRank(rank_values),
     current_rank |-> IF Len(rank_values) > 0 THEN Some(rank_values[Len(rank_values)]) ELSE None,
     rank_change |-> RankChange(rank_values),
     first_recorded |-> IF Len(data) > 0 THEN Some(data[1].timestamp) ELSE None,
     last_recorded |-> IF Len(data) > 0 THEN Some(data[Len(data)].timestamp) ELSE None]

\* The scheduler's state once a run of the job has ended, however it ended:
\* the interval job stays scheduled (lines 78-80).
AfterJobStopsOnError(outcome) == IF outcome = "raised" THEN "stopped" ELSE "idle"
AfterJob(outcome) == "idle"

(***************************************************************************)
(* State.                                                                  *)
(***************************************************************************)
VARIABLES
    store,      \* the documents of the collection
    clock,      \* the time of the latest commit
    sched,      \* the scheduler: "idle" between ticks, "firing" while the job runs
    jobPc,      \* the job's position: "-", "post" (before the request), "add"
    jobReply,   \* the upstream reply the job holds (None outside "add")
    man,        \* the manual trigger: "idle", or "set" (fetched, before the write)
    manReply,   \* the upstream reply the manual trigger holds (None outside "set")
    resp,       \* the HTTP response the latest step sent (NoResp: none)
    nFetched,   \* history: fetches that extracted a rank
    nWriteErr,  \* history: writes the store refused, per writer
    race        \* history: the latest pair of writes that were pending together,
                \* per writer None, <<"pending">>, <<"stored", id>> or <<"refused">>

vars == << store, clock, sched, jobPc, jobReply, man, manReply, resp,
           nFetched, nWriteErr, race >>

Writers == {"job", "manual"}

NoResp == [route |-> "-", status |-> 0]

\* The documents persisted by earlier runs of the process: one per tick.
RankCycle == << 1800, 1700, 1600 >>
PersistedDocs(n) ==
    {[id |-> i, rank |-> RankCycle[(i % 3) + 1], timestamp |-> i, fetch_time |-> None] :
        i \in 1..n}

InitWith(docs) ==
    /\ store = docs
    /\ clock = Cardinality(docs)
    /\ sched = "idle"
    /\ jobPc = "-"
    /\ jobReply = None
    /\ man = "idle"
    /\ manReply = None
    /\ resp = NoResp
    /\ nFetched = 0
    /\ nWriteErr = [w \in Writers |-> 0]
    /\ race = [w \in Writers |-> None]

\* A first start: the collection is empty.
Init == InitWith({})

\* A restart: the collection holds the documents of earlier runs.
InitPersisted == InitWith(PersistedDocs(Persisted))

\* History: writer w has fetched a rank; with the other writer pending too, a
\* pair of concurrent writes begins.
RaceAtFetch(otherPending) ==
    IF otherPending THEN [w \in Writers |-> << "pending" >>] ELSE race

\* History: writer w's write ended with outcome.
RaceAtWrite(w, outcome) ==
    IF race[w] = << "pending" >> THEN [race EXCEPT ![w] = outcome] ELSE race

(***************************************************************************)
(* The scheduled job, fetch_leetcode_rank (lines 47-80).                   *)
(***************************************************************************)
\* The interval trigger fires; a run still in progress is not started again.
Tick ==
    /\ sched = "idle"
    /\ sched' = "firing"
    /\ jobPc' = "post"
    /\ resp' = NoResp
    /\ UNCHANGED << store, clock, jobReply, man, manReply, nFetched, nWriteErr, race >>

\* Lines 62-66 and 74-75: the request, json(), the branch.
fetch_leetcode_rank_post ==
    /\ jobPc = "post"
    /\ \E reply \in Replies :
         LET out == Fetch(reply) IN
         /\ out.kind = "rank" => nFetched < MaxFetched
         /\ IF out.kind = "rank"
            THEN /\ jobPc' = "add"
                 /\ jobReply' = Some(reply)
                 /\ nFetched' = nFetched + 1
                 /\ race' = RaceAtFetch(man = "set")
                 /\ sched' = sched
            ELSE /\ jobPc' = "-"
                 /\ jobReply' = None
                 /\ nFetched' = nFetched
                 /\ race' = race
                 /\ sched' = AfterJob(out.kind)
    /\ resp' = NoResp
    /\ UNCHANGED << store, clock, man, manReply, nWriteErr >>

\* Lines 70-73: add() of rank and the server timestamp; add() may raise.
fetch_leetcode_rank_add ==
    /\ jobPc = "add"
    /\ jobPc' = "-"
    /\ jobReply' = None
    /\ \/ \E ts \in ServerTimestamp(clock) : \E id \in AutoId(store, ts) :
            /\ store' = SetDoc(store, id, JobFields(Fetch(jobReply[1]).rank, clock), ts)
            /\ clock' = ts
            /\ race' = RaceAtWrite("job", << "stored", id >>)
            /\ sched' = AfterJob("stored")
            /\ UNCHANGED nWriteErr
       \/ /\ nWriteErr' = [nWriteErr EXCEPT !["job"] = @ + 1]
          /\ race' = RaceAtWrite("job", << "refused" >>)
          /\ sched' = AfterJob("raised")
          /\ UNCHANGED << store, clock >>
    /\ resp' = NoResp
    /\ UNCHANGED << man, manReply, nFetched >>

(***************************************************************************)
(* GET /api/fetch-now, trigger_fetch (lines 134-185).  The response keeps  *)
(* the upstream reply it answers (upstream: history).                      *)
(***************************************************************************)
FetchNowResp(status, success, current_rank, response, message, reply) ==
    [route |-> "fetch-now", status |-> status, success |-> success,
     current_rank |-> current_rank, response |-> response, message |-> message,
     upstream |-> reply]

\* Lines 155-159, 174-185: the request, json(), the branch; 400 or 500 at once.
trigger_fetch_post ==
    /\ man = "idle"
    /\ \E reply \in Replies :
         LET out == Fetch(reply) IN
         /\ out.kind = "rank" => nFetched < MaxFetched
         /\ CASE out.kind = "rank" ->
                   /\ man' = "set"
                   /\ manReply' = Some(reply)
                   /\ nFetched' = nFetched + 1
                   /\ race' = RaceAtFetch(jobPc = "add")
                   /\ resp' = NoResp
              [] out.kind = "nomatch" ->
                   /\ resp' = FetchNowResp(400, FALSE, None, Some(reply.json),
                                           "Failed to fetch LeetCode data", reply)
                   /\ UNCHANGED << man, manReply, nFetched, race >>
              [] out.kind = "raised" ->
                   /\ resp' = FetchNowResp(500, FALSE, None, None, out.exc, reply)
                   /\ UNCHANGED << man, manReply, nFetched, race >>
    /\ UNCHANGED << store, clock, sched, jobPc, jobReply, nWriteErr >>

\* Lines 162-173, 181-185: document().set() of rank, the server timestamp and
\* fetch_time, then 200; 500 when set() raises.
trigger_fetch_set ==
    /\ man = "set"
    /\ man' = "idle"
    /\ manReply' = None
    /\ LET rank == Fetch(manReply[1]).rank IN
       \/ \E ts \in ServerTimestamp(clock) : \E id \in AutoId(store, ts) :
            /\ store' = SetDoc(store, id, ManualFields(rank, clock), ts)
            /\ clock' = ts
            /\ race' = RaceAtWrite("manual", << "stored", id >>)
            /\ resp' = FetchNowResp(200, TRUE, Some(rank), None,
                                    "Rank fetched and stored successfully", manReply[1])
            /\ UNCHANGED nWriteErr
       \/ /\ nWriteErr' = [nWriteErr EXCEPT !["manual"] = @ + 1]
          /\ race' = RaceAtWrite("manual", << "refused" >>)
          /\ resp' = FetchNowResp(500, FALSE, None, None, "StoreError", manReply[1])
          /\ UNCHANGED << store, clock >>
    /\ UNCHANGED << sched, jobPc, jobReply, nFetched >>

(***************************************************************************)
(* GET /api/rank, get_rank (lines 91-131).                                 *)
(***************************************************************************)
get_rank ==
    /\ \/ \E ranks \in OrderBy(store, "DESCENDING") :
            LET docs == Limit(ranks, RecentLimit) IN
            resp' = [route |-> "rank", status |-> 200,
                     data |-> [i \in 1..Len(docs) |->
                                 [rank |-> docs[i].rank,
                                  timestamp |-> docs[i].timestamp]]]
       \/ resp' = [route |-> "rank", status |-> 500]
    /\ UNCHANGED << store, clock, sched, jobPc, jobReply, man, manReply,
                    nFetched, nWriteErr, race >>

(***************************************************************************)
(* GET /api/rank/history, get_rank_history (lines 187-231).                *)
(***************************************************************************)
get_rank_history ==
    /\ \/ \E ranks \in OrderBy(store, "ASCENDING") :
            LET data == [i \in 1..Len(ranks) |->
                           [rank |-> ranks[i].rank, total_solved |-> None,
                            timestamp |-> ranks[i].timestamp,
                            fetch_time |-> ranks[i].fetch_time]]
                rank_values == [i \in 1..Len(ranks) |-> ranks[i].rank]
            IN  resp' = [route |-> "history", status |-> 200, data |-> data,
                         analytics |-> Analytics(data, rank_values)]
       \/ resp' = [route |-> "history", status |-> 500]
    /\ UNCHANGED << store, clock, sched, jobPc, jobReply, man, manReply,
                    nFetched, nWriteErr, race >>

Next ==
    \/ Tick
    \/ fetch_leetcode_rank_post
    \/ fetch_leetcode_rank_add
    \/ trigger_fetch_post
    \/ trigger_fetch_set
    \/ get_rank
    \/ get_rank_history

Spec == Init /\ [][Next]_vars

SpecPersisted == InitPersisted /\ [][Next]_vars

\* The timer and the job's own steps are not starved: the request returns and
\* the write returns.
LiveSpec ==
    /\ Init
    /\ [][Next]_vars
    /\ WF_vars(Tick)
    /\ WF_vars(fetch_leetcode_rank_post)
    /\ WF_vars(fetch_leetcode_rank_add)

(***************************************************************************)
(* Properties.                                                             *)
(***************************************************************************)
\* The integer at data.matchedUser.profile.ranking of a reply that has one.
Ranking(reply) ==
    reply.json.fields["data"].fields["matchedUser"].fields["profile"].fields["ranking"].val

\* Writers between their fetch and their write.
Pending == (IF jobPc = "add" THEN 1 ELSE 0) + (IF man = "set" THEN 1 ELSE 0)

\* Writes the store refused.
Refused == nWriteErr["job"] + nWriteErr["manual"]

JobWrites == jobPc = "add" /\ jobPc' # "add"
ManualWrites == man = "set" /\ man' # "set"

\* This step adds exactly one document, new to the store, with the reply's ranking.
Appended(reply) ==
    \E d \in store' : d \notin store /\ store' = store \cup {d} /\ d.rank = Ranking(reply)

ReadRoutes == {"rank", "history"}
ReadOk(route) == resp.route = route /\ resp.status = 200

NonIncreasing(data) ==
    \A i \in 1..(Len(data) - 1) : data[i].timestamp >= data[i + 1].timestamp
StrictlyDecreasing(data) ==
    \A i \in 1..(Len(data) - 1) : data[i].timestamp > data[i + 1].timestamp
NonDecreasing(data) ==
    \A i \in 1..(Len(data) - 1) : data[i].timestamp <= data[i + 1].timestamp
StrictlyIncreasing(data) ==
    \A i \in 1..(Len(data) - 1) : data[i].timestamp < data[i + 1].timestamp
HasTie(data) ==
    \E i \in 1..(Len(data) - 1) : data[i].timestamp = data[i + 1].timestamp

CountIn(data, t) == Cardinality({j \in 1..Len(data) : data[j].timestamp = t})
CountStore(t) == Cardinality({d \in store : d.timestamp = t})

(* ---------------------------------------------------------------- C1 -- *)
C1_OriginalStep ==
    /\ JobWrites => Appended(jobReply[1])
    /\ ManualWrites => Appended(manReply[1])
    /\ store' # store => JobWrites \/ ManualWrites

C1_WriteStep ==
    /\ JobWrites =>
         IF nWriteErr' = nWriteErr THEN Appended(jobReply[1]) ELSE store' = store
    /\ ManualWrites =>
         IF nWriteErr' = nWriteErr THEN Appended(manReply[1]) ELSE store' = store
    /\ store' # store => JobWrites \/ ManualWrites

MostRecent(data) ==
    LET n == Len(data) IN
    /\ n <= RecentLimit
    /\ n = IF Cardinality(store) < RecentLimit THEN Cardinality(store) ELSE RecentLimit
    /\ \A j \in 1..n :
         /\ \E d \in store : d.rank = data[j].rank /\ d.timestamp = data[j].timestamp
         /\ CountIn(data, data[j].timestamp) <= CountStore(data[j].timestamp)
    /\ \A d \in store :
         (n > 0 /\ d.timestamp > data[n].timestamp) =>
             CountIn(data, d.timestamp) = CountStore(d.timestamp)

\* C2 as stated: GET /api/rank returns at most 10 observations, the most recent
\* ones, each timestamp strictly greater than the next.
C2_Original ==
    ReadOk("rank") => MostRecent(resp.data) /\ StrictlyDecreasing(resp.data)

\* C2, amended: GET /api/rank returns at most 10 observations, the most recent
\* ones, in descending order of timestamp; observations written at the same
\* commit time carry equal timestamps, so each returned timestamp is greater
\* than or equal to the next.
C2_Recent ==
    ReadOk("rank") => MostRecent(resp.data) /\ NonIncreasing(resp.data)

C2_Witness ==
    /\ ReadOk("rank")
    /\ Cardinality(store) > RecentLimit
    /\ Len(resp.data) = RecentLimit
    /\ HasTie(resp.data)

(* ---------------------------------------------------------------- C3 -- *)
WholeStore(data) ==
    /\ Len(data) = Cardinality(store)
    /\ \A d \in store :
         \E j \in 1..Len(data) :
            /\ data[j].rank = d.rank
            /\ data[j].timestamp = d.timestamp
            /\ data[j].fetch_time = d.fetch_time

LastMinusFirst(data) ==
    IF Len(data) >= 2 THEN data[Len(data)].rank - data[1].rank ELSE 0

\* C3 as stated: GET /api/rank/history returns the observations in strictly
\* ascending order of timestamp, and rank_change is the last rank minus the
\* first with two or more records, else 0.
C3_Original ==
    ReadOk("history") =>
        /\ WholeStore(resp.data)
        /\ StrictlyIncreasing(resp.data)
        /\ resp.analytics.rank_change = LastMinusFirst(resp.data)

\* C3, amended: GET /api/rank/history returns the observations in ascending
\* order of timestamp, equal timestamps allowed (each timestamp is less than or
\* equal to the next), and rank_change is the rank of the last returned
\* observation minus the rank of the first with two or more records, else 0.
C3_History ==
    ReadOk("history") =>
        /\ WholeStore(resp.data)
        /\ NonDecreasing(resp.data)
        /\ resp.analytics.rank_change = LastMinusFirst(resp.data)

C3_Witness ==
    /\ ReadOk("history")
    /\ Len(resp.data) >= 2
    /\ HasTie(resp.data)
    /\ resp.analytics.rank_change # 0

(* ---------------------------------------------------------------- C4 -- *)
\* C4: best_rank of GET /api/rank/history is the minimum rank over the returned
\* records and null when there are none; total_records is their number.
C4_BestRank ==
    ReadOk("history") =>
        LET data == resp.data
            best == resp.analytics.best_rank
        IN  /\ resp.analytics.total_records = Len(data)
            /\ Len(data) = Cardinality(store)
            /\ Len(data) = 0 => best = None
            /\ Len(data) > 0 =>
                 /\ Len(best) = 1
                 /\ \E j \in 1..Len(data) : data[j].rank = best[1]
                 /\ \A j \in 1..Len(data) : data[j].rank >= best[1]

C4_Witness ==
    /\ ReadOk("history")
    /\ Len(resp.data) >= 2
    /\ resp.analytics.best_rank # Some(resp.data[1].rank)

(* ---------------------------------------------------------------- C5 -- *)
\* The body has a matched user (data.matchedUser present and not null).
HasMatchedUser(reply) ==
    /\ reply.kind = "http"
    /\ reply.text = "json"
    /\ HasItem(reply.json, "data")
    /\ HasItem(reply.json.fields["data"], "matchedUser")
    /\ reply.json.fields["data"].fields["matchedUser"].kind # "null"

\* The reply is JSON in which data.matchedUser is null or absent.
NoMatchedUser(reply) ==
    reply.kind = "http" /\ reply.text = "json" /\ ~HasMatchedUser(reply)

\* C5: when the upstream response has no matched user, GET /api/fetch-now
\* answers 400 with success false and writes no observation.
C5_NoMatch400 ==
    [][(resp'.route = "fetch-now" /\ NoMatchedUser(resp'.upstream)) =>
          (resp'.status = 400 /\ resp'.success = FALSE /\ store' = store)]_vars

(* ---------------------------------------------------------------- C6 -- *)
\* The failure conditions of a fetch: transport error, a status that is not
\* 2xx, malformed JSON, data.matchedUser absent or null.
FailedFetch(reply) ==
    \/ reply.kind = "transport_error"
    \/ reply.status \notin 200..299
    \/ reply.text # "json"
    \/ ~HasMatchedUser(reply)

\* C6: a fetch that fails, on the scheduled or the manual path, leaves the
\* store unchanged: only a write that follows a successful fetch changes it.
C6_FailedFetchNoWrite ==
    [][store' # store =>
          \/ JobWrites /\ ~FailedFetch(jobReply[1])
          \/ ManualWrites /\ ~FailedFetch(manReply[1])]_vars

(* ---------------------------------------------------------------- C7 -- *)
\* C7: a read route leaves the store as it is, and a GET that directly follows
\* a GET of the same route returns the same data.
C7_Idempotent ==
    [][/\ resp'.route \in ReadRoutes => store' = store
       /\ (resp.route \in ReadRoutes /\ resp'.route = resp.route
             /\ resp.status = 200 /\ resp'.status = 200) => resp' = resp]_vars

C7_Witness ==
    /\ ReadOk("rank")
    /\ HasTie(resp.data)
    /\ Len(resp.data) = Cardinality(store)

(* ---------------------------------------------------------------- C8 -- *)
\* C8: the store is append-only: every step keeps every stored observation,
\* with its rank, timestamp and fetch_time.
C8_AppendOnly == [][\A d \in store : d \in store']_vars

C8_Witness ==
    /\ Cardinality(store) >= 2
    /\ \E d \in store : d.fetch_time # None /\ d.timestamp < clock

(* ---------------------------------------------------------------- C9 -- *)
C9_JobStep ==
    /\ (jobPc = "post" /\ jobPc' = "-") => (sched' = "idle" /\ store' = store)
    /\ JobWrites =>
         /\ sched' = "idle"
         /\ IF nWriteErr' = nWriteErr THEN Appended(jobReply[1]) ELSE store' = store
    /\ (jobPc # "post" /\ jobPc' = "post") => (sched = "idle" /\ sched' = "firing")

Stored(w) == Len(race[w]) = 2

RaceKept ==
    /\ \A w \in Writers :
         Stored(w) =>
            /\ Cardinality({d \in store : d.id = race[w][2]}) = 1
            /\ \A d \in store :
                 d.id = race[w][2] => ((d.fetch_time # None) <=> (w = "manual"))
    /\ (Stored("job") /\ Stored("manual")) => race["job"][2] # race["manual"][2]

\* C10 as stated: once a scheduled tick and a manual request that were pending
\* together have both ended, both observations are in the store, and only the
\* manual one carries fetch_time.
C10_Original ==
    (\A w \in Writers : race[w] # None /\ race[w] # << "pending" >>) =>
        /\ \A w \in Writers : Stored(w)
        /\ RaceKept

\* C10, amended: of a scheduled tick and a manual request that were pending
\* together, every write the store accepts is in the store afterwards, whatever
\* the order of the steps, as a document of its own, and only the manual one
\* carries fetch_time; a write the store refuses is lost and leaves the other
\* untouched.
C10_BothStored ==
    /\ RaceKept
    /\ \A w \in Writers : race[w] = << "refused" >> => nWriteErr[w] > 0

C10_Witness == Stored("job") /\ Stored("manual")

====
